---------------------------- MODULE Spec2Model ----------------------------
(***************************************************************************)
(* Model of the rule-based triage assistant of src/main.py: the two        *)
(* endpoints POST /api/triage/start (triage_start) and                     *)
(* POST /api/triage/next (triage_next).                                    *)
(*                                                                         *)
(* A Python str is modelled as a sequence of one-character strings, so     *)
(* that str.lower(), the f-string join and the substring test `k in ctx`   *)
(* are computed character by character.  An Optional value is None == <<>> *)
(* or Some(v) == <<v>>.  The question and outcome texts are those of the   *)
(* source in ASCII: the emoji glyphs are left out and "Oke" stands for the *)
(* accented spelling.                                                      *)
(***************************************************************************)
EXTENDS Integers, Sequences, FiniteSets

VARIABLES
    op,     \* endpoint of the latest call: "idle" (none yet), "start", "next"
    turn,   \* TriageTurn body of the latest /api/triage/start call
    data,   \* TriageNextInput body of the latest /api/triage/next call
    resp,   \* TriageStepResponse returned by the latest call
    prev    \* TriageStepResponse returned by the call before it

vars == <<op, turn, data, resp, prev>>

---------------------------------------------------------------------------
(* Optional[...] *)

None == <<>>

Some(v) == <<v>>

\* Python's `x or ''` on an Optional[str]
OrEmpty(x) == IF x = None THEN <<>> ELSE x[1]

---------------------------------------------------------------------------
(* str.lower() and the substring test *)

UpperChars == <<"A","B","C","D","E","F","G","H","I","J","K","L","M",
                "N","O","P","Q","R","S","T","U","V","W","X","Y","Z">>

LowerChars == <<"a","b","c","d","e","f","g","h","i","j","k","l","m",
                "n","o","p","q","r","s","t","u","v","w","x","y","z">>

\* str.lower() on one character: the ASCII capitals map to their small letters
LowerChar ==
    [c \in {UpperChars[i] : i \in 1..Len(UpperChars)} |->
        LowerChars[CHOOSE i \in 1..Len(UpperChars) : UpperChars[i] = c]]

\* a str.lower() that leaves the text as it is
LowerIdentity(s) == s

Lower(s) ==
    [i \in 1..Len(s) |-> IF s[i] \in DOMAIN LowerChar THEN LowerChar[s[i]] ELSE s[i]]

\* Python's `k in text` for two str
Contains(text, k) ==
    \E i \in 1..(Len(text) - Len(k) + 1) :
        \A j \in 1..Len(k) : text[i + j - 1] = k[j]

\* Python's `any(k in text for k in keys)`
AnyIn(keys, text) == \E i \in 1..Len(keys) : Contains(text, keys[i])

---------------------------------------------------------------------------
(* The keyword lists of triage_start and triage_next *)

START_KEYWORDS ==
    << <<"b","u","i","k">>, <<"b","u","i","k","p","i","j","n">> >>

ABDOMINAL_KEYWORDS ==
    << <<"b","u","i","k">>, <<"b","u","i","k","p","i","j","n">>,
       <<"m","a","a","g">>, <<"o","n","d","e","r","b","u","i","k">> >>

RECENCY_KEYWORDS ==
    << <<"u","r","e","n">>, <<"g","i","s","t","e","r">>,
       <<"g","i","s","t","e","r","e","n">>, <<"v","a","n","d","a","a","g">>,
       <<"n","e","t">> >>

SHARP_KEYWORDS == << <<"s","t","e","k","e","n","d">> >>

FEVER_KEYWORDS ==
    << <<"k","o","o","r","t","s">>, <<"b","r","a","a","k">>,
       <<"b","r","a","k","e","n">>, <<"o","v","e","r","g","e","v","e","n">> >>

\* a red-flag list that lost its chest-pain entry
RED_FLAG_KEYWORDS_NoChestPain ==
    << <<"f","l","a","u","w","v","a","l","l","e","n">>,
       <<"k","o","r","t","a","d","e","m","i","g">> >>

RED_FLAG_KEYWORDS ==
    << <<"f","l","a","u","w","v","a","l","l","e","n">>,
       <<"b","o","r","s","t","p","i","j","n">>,
       <<"k","o","r","t","a","d","e","m","i","g">> >>

---------------------------------------------------------------------------
(* TriageStepResponse and the texts the two handlers return *)

Levels == {"emergency", "urgent", "routine"}

\* a constructor whose unset tips default to an empty list instead of None
TriageStepResponseEmptyTips(question, outcome, level, tips, tone) ==
    [question |-> question, outcome |-> outcome, level |-> level,
     tips |-> IF tips = None THEN Some(<<>>) ELSE tips, tone |-> tone]

TriageStepResponse(question, outcome, level, tips, tone) ==
    [question |-> question, outcome |-> outcome, level |-> level,
     tips |-> tips, tone |-> tone]

Ask(question, tone) == TriageStepResponse(Some(question), None, None, None, tone)

Q_ONSET == "Oef, vervelend! Wanneer begon het? (uren/dagen)"

Q_TELL == "Vertel kort wat er speelt. Waar doet het pijn of wat valt op?"

Q_SHARP_OR_DULL == "Is het stekend of dof?"

Q_FEVER == "Heb je koorts of moet je braken?"

Q_CONSTANT_OR_WAVES == "Is de pijn constant of komt het in golven?"

Q_WHERE == "Oke. Waar zit het precies en hoe lang al?"

OUTCOME_URGENT ==
    "Dit klinkt serieus, maat. Kan appendicitis zijn. Bel je huisarts vandaag nog."

TIPS_URGENT ==
    <<"Niet eten/drinken als je misselijk bent", "Regel vervoer als lopen pijn doet">>

OUTCOME_EMERGENCY == "Klinkt als spoed. Bel 112 of ga naar de SEH."

TIPS_EMERGENCY == <<"Blijf niet alleen">>

AskOnset == Ask(Q_ONSET, "Jong, vriendelijk, speels. Korte zinnen.")

AskTell == Ask(Q_TELL, "Empathisch en duidelijk.")

AskSharpOrDull == Ask(Q_SHARP_OR_DULL, "Kort en duidelijk.")

AskFever == Ask(Q_FEVER, "Empathisch.")

AskConstantOrWaves == Ask(Q_CONSTANT_OR_WAVES, "Neutral")

AskWhere == Ask(Q_WHERE, "Vriendelijk")

ConcludeUrgent ==
    TriageStepResponse(None, Some(OUTCOME_URGENT), Some("urgent"),
                       Some(TIPS_URGENT), "Eerlijk en direct.")

ConcludeEmergency ==
    TriageStepResponse(None, Some(OUTCOME_EMERGENCY), Some("emergency"),
                       Some(TIPS_EMERGENCY), "Urgent")

---------------------------------------------------------------------------
(* The handlers as functions of the request body *)

Space == <<" ">>

triage_start(t) ==
    LET text == Lower(t.message)
    IN  IF AnyIn(START_KEYWORDS, text) THEN AskOnset ELSE AskTell

\* ctx of triage_next: the f-string over the three fields, lowercased
CombinedContext(d) ==
    Lower(OrEmpty(d.complaint) \o Space \o OrEmpty(Some(d.context)) \o Space
              \o OrEmpty(d.last_answer))

\* the mini-tree with the fever rule tried before the recency and sharp rules
AbdominalTreeFeverFirst(ctx) ==
    IF AnyIn(FEVER_KEYWORDS, ctx) THEN ConcludeUrgent
    ELSE IF AnyIn(RECENCY_KEYWORDS, ctx) THEN AskSharpOrDull
    ELSE IF AnyIn(SHARP_KEYWORDS, ctx) THEN AskFever
    ELSE AskConstantOrWaves

\* the mini-tree with the sharp rule tried before the recency rule
AbdominalTreeSharpFirst(ctx) ==
    IF AnyIn(SHARP_KEYWORDS, ctx) THEN AskFever
    ELSE IF AnyIn(RECENCY_KEYWORDS, ctx) THEN AskSharpOrDull
    ELSE IF AnyIn(FEVER_KEYWORDS, ctx) THEN ConcludeUrgent
    ELSE AskConstantOrWaves

\* the abdominal pain mini-tree, entered once an abdominal keyword matched
AbdominalTree(ctx) ==
    IF AnyIn(RECENCY_KEYWORDS, ctx) THEN AskSharpOrDull
    ELSE IF AnyIn(SHARP_KEYWORDS, ctx) THEN AskFever
    ELSE IF AnyIn(FEVER_KEYWORDS, ctx) THEN ConcludeUrgent
    ELSE AskConstantOrWaves

\* the red-flag test placed before the abdominal mini-tree
RuleTableEmergencyFirst(ctx) ==
    IF AnyIn(RED_FLAG_KEYWORDS, ctx) THEN ConcludeEmergency
    ELSE IF AnyIn(ABDOMINAL_KEYWORDS, ctx) THEN AbdominalTree(ctx)
    ELSE AskWhere

\* the mini-tree's default follow-up dedented out of the abdominal `if`
RuleTableDedentedDefault(ctx) ==
    IF AnyIn(ABDOMINAL_KEYWORDS, ctx) /\ AnyIn(RECENCY_KEYWORDS, ctx)
    THEN AskSharpOrDull
    ELSE IF AnyIn(ABDOMINAL_KEYWORDS, ctx) /\ AnyIn(SHARP_KEYWORDS, ctx)
    THEN AskFever
    ELSE IF AnyIn(ABDOMINAL_KEYWORDS, ctx) /\ AnyIn(FEVER_KEYWORDS, ctx)
    THEN ConcludeUrgent
    ELSE AskConstantOrWaves

\* the body of triage_next after ctx is built
RuleTable(ctx) ==
    IF AnyIn(ABDOMINAL_KEYWORDS, ctx) THEN AbdominalTree(ctx)
    ELSE IF AnyIn(RED_FLAG_KEYWORDS, ctx) THEN ConcludeEmergency
    ELSE AskWhere

triage_next(d) == RuleTable(CombinedContext(d))


---------------------------------------------------------------------------
(* The request bodies a caller sends *)

\* most words of the text a caller holds in the context field
MaxWords == 2

Words ==
    { <<"b","u","i","k","p","i","j","n">>,        \* buikpijn
      <<"M","a","a","g">>,                        \* Maag
      <<"g","i","s","t","e","r","e","n">>,        \* gisteren
      <<"i","n","t","e","r","n","e","t">>,        \* internet
      <<"s","t","e","k","e","n","d">>,            \* stekend
      <<"k","o","o","r","t","s">>,                \* koorts
      <<"B","R","A","K","E","N">>,                \* BRAKEN
      <<"b","o","r","s","t","p","i","j","n">>,    \* borstpijn
      <<"d","o","f">> }                           \* dof

ComplaintWords ==
    { <<"b","u","i","k","p","i","j","n">>, <<"M","a","a","g">>,
      <<"g","i","s","t","e","r","e","n">>,
      <<"b","o","r","s","t","p","i","j","n">>,
      <<"h","o","o","f","d","p","i","j","n">> }

AnswerWords ==
    { <<"b","u","i","k","p","i","j","n">>, <<"g","i","s","t","e","r","e","n">>,
      <<"s","t","e","k","e","n","d">>, <<"B","R","A","K","E","N">>,
      <<"b","o","r","s","t","p","i","j","n">> }

\* an empty and a whitespace-only text
BlankTexts == { <<>>, <<" ", " ">> }

\* what the caller does to hold one more answer in its context text
AppendWord(text, w) == IF text = <<>> THEN w ELSE text \o Space \o w

WordCount(text) ==
    IF text = <<>> THEN 0
    ELSE 1 + Cardinality({i \in 1..Len(text) : text[i] = " "})

TriageTurn(message) == [message |-> message]

TriageNextInput(context, complaint, last_answer) ==
    [context |-> context, complaint |-> complaint, last_answer |-> last_answer]

MessageInputs == BlankTexts \cup Words \cup ComplaintWords

ComplaintInputs == {None, Some(<<>>)} \cup {Some(w) : w \in ComplaintWords}

AnswerInputs == {None} \cup {Some(w) : w \in AnswerWords}

\* the first call of a conversation: any body with at most one word a field
FirstInputs ==
    {TriageNextInput(c, m, a) :
        c \in BlankTexts \cup Words, m \in ComplaintInputs, a \in AnswerInputs}

\* the call after /api/triage/start: the message becomes the complaint
AfterStartInputs ==
    {TriageNextInput(w, Some(turn.message), None) : w \in Words}

\* a later call: the caller appends the new answer to the context it holds
\* (accumulated context), or sends the new answer alone as the context
AccumulatedInputs ==
    IF WordCount(data.context) < MaxWords
    THEN {TriageNextInput(AppendWord(data.context, w), data.complaint, data.last_answer) :
             w \in Words}
    ELSE {}

ReplacedInputs ==
    {TriageNextInput(w, data.complaint, data.last_answer) : w \in Words}

---------------------------------------------------------------------------
(* The state machine: one conversation of calls to the two endpoints *)

NoResponse == TriageStepResponse(None, None, None, None, "")

Init ==
    /\ op = "idle"
    /\ turn = TriageTurn(<<>>)
    /\ data = TriageNextInput(<<>>, None, None)
    /\ resp = NoResponse
    /\ prev = NoResponse

\* POST /api/triage/start
PostTriageStart ==
    /\ op = "idle"
    /\ \E m \in MessageInputs :
          /\ turn' = TriageTurn(m)
          /\ resp' = triage_start(TriageTurn(m))
    /\ op' = "start"
    /\ prev' = resp
    /\ UNCHANGED data

\* POST /api/triage/next with the body d
Handle_triage_next(d) ==
    /\ data' = d
    /\ resp' = triage_next(d)
    /\ op' = "next"
    /\ prev' = resp
    /\ turn' = TriageTurn(<<>>)

PostTriageNextFirst ==
    /\ op = "idle"
    /\ \E d \in FirstInputs : Handle_triage_next(d)

PostTriageNextAfterStart ==
    /\ op = "start"
    /\ \E d \in AfterStartInputs : Handle_triage_next(d)

PostTriageNextAccumulated ==
    /\ op = "next"
    /\ \E d \in AccumulatedInputs : Handle_triage_next(d)

PostTriageNextReplaced ==
    /\ op = "next"
    /\ \E d \in ReplacedInputs : Handle_triage_next(d)

Next ==
    \/ PostTriageStart
    \/ PostTriageNextFirst
    \/ PostTriageNextAfterStart
    \/ PostTriageNextAccumulated
    \/ PostTriageNextReplaced

Spec == Init /\ [][Next]_vars

---------------------------------------------------------------------------
(* The vocabulary of the claims: the keyword sets as the claims list them, *)
(* and what the combined context of the latest /api/triage/next call       *)
(* mentions.                                                               *)

AbdominalWords ==
    { <<"b","u","i","k">>, <<"b","u","i","k","p","i","j","n">>,
      <<"m","a","a","g">>, <<"o","n","d","e","r","b","u","i","k">> }

RecencyWords ==
    { <<"u","r","e","n">>, <<"g","i","s","t","e","r">>,
      <<"g","i","s","t","e","r","e","n">>, <<"v","a","n","d","a","a","g">>,
      <<"n","e","t">> }

SharpWords == { <<"s","t","e","k","e","n","d">> }

FeverWords ==
    { <<"k","o","o","r","t","s">>, <<"b","r","a","a","k">>,
      <<"b","r","a","k","e","n">>, <<"o","v","e","r","g","e","v","e","n">> }

RedFlagWords ==
    { <<"f","l","a","u","w","v","a","l","l","e","n">>,
      <<"b","o","r","s","t","p","i","j","n">>,
      <<"k","o","r","t","a","d","e","m","i","g">> }

AllWords ==
    AbdominalWords \cup RecencyWords \cup SharpWords \cup FeverWords \cup RedFlagWords

\* the keywords of the set ks that the text holds
Held(ks, text) == {k \in ks : Contains(text, k)}

\* the combined context of body d holds a keyword of ks
MentionsIn(d, ks) == Held(ks, CombinedContext(d)) /= {}

Mentions(ks) == MentionsIn(data, ks)

IsAsk(r) ==
    r.question /= None /\ r.outcome = None /\ r.level = None /\ r.tips = None

IsConclude(r) ==
    /\ r.outcome /= None
    /\ r.level \in {Some(l) : l \in Levels}
    /\ r.tips /= None
    /\ r.question = None

IsUrgentConclusion(r) ==
    /\ r.level = Some("urgent")
    /\ r.outcome =
         Some("Dit klinkt serieus, maat. Kan appendicitis zijn. Bel je huisarts vandaag nog.")
    /\ r.tips /= None
    /\ Len(r.tips[1]) = 2
    /\ r.question = None

IsEmergencyConclusion(r) ==
    /\ r.level = Some("emergency")
    /\ r.outcome = Some("Klinkt als spoed. Bel 112 of ga naar de SEH.")
    /\ r.tips = Some(<<"Blijf niet alleen">>)
    /\ r.question = None

\* a response only the abdominal branch gives
FromAbdominalBranch(r) ==
    \/ r.question \in {Some("Is het stekend of dof?"),
                       Some("Heb je koorts of moet je braken?"),
                       Some("Is de pijn constant of komt het in golven?")}
    \/ r.level = Some("urgent")

---------------------------------------------------------------------------
\* C1: when the combined context holds an abdominal keyword, triage_next
\* answers with the first matching sub-rule in the order recency -> "Is het
\* stekend of dof?", "stekend" -> "Heb je koorts of moet je braken?",
\* fever/vomiting -> urgent conclusion with two tips, none -> "Is de pijn
\* constant of komt het in golven?".
C1_AbdominalSubRuleOrder ==
    (op = "next" /\ Mentions(AbdominalWords)) =>
        IF Mentions(RecencyWords)
        THEN IsAsk(resp) /\ resp.question = Some("Is het stekend of dof?")
        ELSE IF Mentions(SharpWords)
        THEN IsAsk(resp) /\ resp.question = Some("Heb je koorts of moet je braken?")
        ELSE IF Mentions(FeverWords)
        THEN IsConclude(resp) /\ resp.level = Some("urgent") /\ Len(resp.tips[1]) = 2
        ELSE IsAsk(resp)
             /\ resp.question = Some("Is de pijn constant of komt het in golven?")

\* a call whose context holds an abdominal and a fever keyword and neither a
\* recency keyword nor "stekend", answered with the urgent conclusion
C1_Witness ==
    /\ op = "next"
    /\ Mentions(AbdominalWords)
    /\ ~Mentions(RecencyWords)
    /\ ~Mentions(SharpWords)
    /\ Mentions(FeverWords)
    /\ IsUrgentConclusion(resp)

\* C2: when the combined context holds an abdominal keyword, "stekend" and a
\* fever/vomiting keyword, triage_next returns the urgent conclusion (level
\* urgent, the appendicitis/huisarts outcome, two tips, no question).
C2_SharpWithFeverConcludes ==
    (op = "next" /\ Mentions(AbdominalWords) /\ Mentions(SharpWords)
        /\ Mentions(FeverWords))
    => IsUrgentConclusion(resp)

\* C3: when the combined context holds no abdominal keyword and a red-flag
\* keyword, triage_next returns the emergency conclusion: level emergency,
\* the 112/SEH outcome, tips ["Blijf niet alleen"], no question.
C3_RedFlagEmergency ==
    (op = "next" /\ ~Mentions(AbdominalWords) /\ Mentions(RedFlagWords))
    => IsEmergencyConclusion(resp)

C3_Witness ==
    /\ op = "next"
    /\ ~Mentions(AbdominalWords)
    /\ Mentions(RedFlagWords)
    /\ IsEmergencyConclusion(resp)

\* C4: when the combined context holds both an abdominal and a red-flag
\* keyword, from whichever fields, triage_next answers from the abdominal
\* branch and never with level emergency.
C4_AbdominalBeforeEmergency ==
    (op = "next" /\ Mentions(AbdominalWords) /\ Mentions(RedFlagWords))
    => (FromAbdominalBranch(resp) /\ resp.level /= Some("emergency"))

\* the red-flag keyword came in the complaint, the abdominal one in another field
C4_Witness ==
    /\ op = "next"
    /\ Held(RedFlagWords, Lower(OrEmpty(data.complaint))) /= {}
    /\ Held(AbdominalWords, Lower(OrEmpty(data.complaint))) = {}
    /\ Mentions(AbdominalWords)
    /\ FromAbdominalBranch(resp)

\* C5: every call of triage_start and triage_next returns either an Ask
\* (question present; outcome, level and tips absent) or a Conclude (outcome,
\* one level of the three and tips present; question absent), and a tone.
C5_WellFormedResponse ==
    op /= "idle" =>
        /\ IsAsk(resp) \/ IsConclude(resp)
        /\ ~(IsAsk(resp) /\ IsConclude(resp))
        /\ resp.tone /= ""

\* both shapes have been returned in one conversation: an Ask, then a Conclude
C5_Witness ==
    op = "next" /\ IsAsk(prev) /\ IsConclude(resp)

\* C6: when the combined context holds neither an abdominal nor a red-flag
\* keyword (also when every field is empty, missing or blank), triage_next
\* returns the generic Ask "Oke. Waar zit het precies en hoe lang al?" with
\* no level, outcome or tips.
C6_GenericFallback ==
    (op = "next" /\ ~Mentions(AbdominalWords) /\ ~Mentions(RedFlagWords))
    => (resp.question = Some("Oke. Waar zit het precies en hoe lang al?")
        /\ IsAsk(resp))

\* the optional fields missing and the context whitespace only
C6_Witness ==
    /\ op = "next"
    /\ data.complaint = None
    /\ data.last_answer = None
    /\ data.context = <<" ", " ">>
    /\ resp.question = Some("Oke. Waar zit het precies en hoe lang al?")

\* C7: triage_start returns the onset Ask exactly for the messages whose
\* lowercased text holds a keyword of the abdominal set triage_next uses
\* (buik, buikpijn, maag, onderbuik), and the generic Ask for the others.
C7_StartUsesAbdominalSet ==
    op = "start" =>
        IF Held(AbdominalWords, Lower(turn.message)) /= {}
        THEN resp.question = Some("Oef, vervelend! Wanneer begon het? (uren/dagen)")
             /\ resp.tone = "Jong, vriendelijk, speels. Korte zinnen."
        ELSE resp.question =
                 Some("Vertel kort wat er speelt. Waar doet het pijn of wat valt op?")
             /\ resp.tone = "Empathisch en duidelijk."

---------------------------------------------------------------------------
(* Letter case *)

\* the capital of each small ASCII letter
UpperChar ==
    [c \in {LowerChars[i] : i \in 1..Len(LowerChars)} |->
        UpperChars[CHOOSE i \in 1..Len(LowerChars) : LowerChars[i] = c]]

Upper(s) ==
    [i \in 1..Len(s) |-> IF s[i] \in DOMAIN UpperChar THEN UpperChar[s[i]] ELSE s[i]]

\* only the first letter a capital
Capitalized(s) ==
    [i \in 1..Len(s) |-> IF i = 1 THEN Upper(s)[i] ELSE Lower(s)[i]]

UpperOpt(x) == IF x = None THEN None ELSE Some(Upper(x[1]))

LowerOpt(x) == IF x = None THEN None ELSE Some(Lower(x[1]))

CapitalizedOpt(x) == IF x = None THEN None ELSE Some(Capitalized(x[1]))

\* bodies that differ from d in letter case only
CaseVariants(d) ==
    { TriageNextInput(Upper(d.context), UpperOpt(d.complaint),
                      UpperOpt(d.last_answer)),
      TriageNextInput(Lower(d.context), LowerOpt(d.complaint),
                      LowerOpt(d.last_answer)),
      TriageNextInput(Capitalized(d.context), CapitalizedOpt(d.complaint),
                      CapitalizedOpt(d.last_answer)),
      TriageNextInput(Upper(d.context), d.complaint, d.last_answer),
      TriageNextInput(d.context, UpperOpt(d.complaint), d.last_answer),
      TriageNextInput(d.context, d.complaint, UpperOpt(d.last_answer)) }

MessageCaseVariants(t) ==
    { TriageTurn(Upper(t.message)), TriageTurn(Lower(t.message)),
      TriageTurn(Capitalized(t.message)) }

\* C9: two bodies that differ only in letter case get the same response, from
\* triage_next and from triage_start.
C9_CaseInsensitive ==
    /\ op = "next" => \A v \in CaseVariants(data) : triage_next(v) = resp
    /\ op = "start" => \A v \in MessageCaseVariants(turn) : triage_start(v) = resp

\* a body with capitals whose keywords decide the answer: the urgent conclusion
C9_Witness ==
    /\ op = "next"
    /\ TriageNextInput(Lower(data.context), LowerOpt(data.complaint),
                       LowerOpt(data.last_answer)) /= data
    /\ IsUrgentConclusion(resp)

---------------------------------------------------------------------------
(* Conversations whose context only grows *)

\* the step is from one /api/triage/next call to the next one, and the new
\* combined context holds every keyword the old one held
ContextGrows ==
    /\ op = "next"
    /\ op' = "next"
    /\ Held(AllWords, CombinedContext(data)) \subseteq Held(AllWords, CombinedContext(data'))

\* C10: over calls whose combined context keeps every keyword of the call
\* before, an answer from the abdominal branch is followed by answers from
\* the abdominal branch only, and the Ask "Is het stekend of dof?" is
\* followed by that same Ask, so no Conclude comes after it.
C10_GrowingContextStaysPut ==
    [][ \/ /\ FromAbdominalBranch(resp) => FromAbdominalBranch(resp')
           /\ resp.question = Some("Is het stekend of dof?") =>
                  (resp' = resp /\ ~IsConclude(resp'))
        \/ ~ContextGrows ]_vars

\* after "Is het stekend of dof?" the caller appended its answers, the context
\* now holds "stekend" and a fever keyword, and the answer is that Ask again
C10_Witness ==
    /\ op = "next"
    /\ WordCount(data.context) >= 2
    /\ prev.question = Some("Is het stekend of dof?")
    /\ resp = prev
    /\ Mentions(SharpWords)
    /\ Mentions(FeverWords)

===========================================================================
